---- MODULE Spec2Model ----
(***************************************************************************)
(* Model of the MotusDAO hub payment core: sendPaymentWithKernel and the   *)
(* helpers it uses (src/unnamed/part_001).  One call is a sequence of      *)
(* steps separated by the two awaits on the ZeroDev Kernel account client: *)
(*   Start            validation, encoding, call of sendUserOperation      *)
(*   SubmitReturns    sendUserOperation resolved, waitForUserOperation-    *)
(*                    Receipt is called                                    *)
(*   SubmitThrows     sendUserOperation rejected, top-level catch          *)
(*   ReceiptReturns   the receipt arrived (with or without a hash)         *)
(*   ReceiptThrows    the wait rejected: receipt catch, then top-level     *)
(*                    catch                                                *)
(* Strings are TLA+ strings; includes, startsWith and toLowerCase are      *)
(* computed character by character.                                        *)
(*                                                                         *)
(* Further specifications over the same variables:                         *)
(*   SpecRepeat    two calls of sendPaymentWithKernel in a row             *)
(*   SpecWallets   the functions of lib/wallet-utils.ts applied to a list  *)
(*   SpecWait      waitForSmartWallet (src/unnamed/part_002)               *)
(*   SpecProvider  the WaaPProvider component (src/unnamed/part_003)       *)
(***************************************************************************)
EXTENDS Integers, Sequences, FiniteSets, TLC

VARIABLES
  pc,          \* position of the call: "idle", "submitting", "waiting", "done"
  params,      \* the PaymentParams of the call
  registry,    \* CELO_STABLE_TOKENS
  submitted,   \* sequence of the calls arrays handed to sendUserOperation
  awaited,     \* sequence of the hashes handed to waitForUserOperationReceipt
  userOpHash,  \* set holding the hash sendUserOperation returned, if any
  receipt,     \* set holding receipt?.receipt?.transactionHash, once the wait resolved
  thrown,      \* sequence of <<stage, value>>: what was thrown inside the try
  returned,    \* set holding the PaymentResult the call returned, if any
  raised,      \* set holding the value the call raised to its caller, if any
  previous,    \* set of <<thrown, returned>> of the calls that ended before this one
  wallets,     \* the WaaPWallet[]: argument of wallet-utils and of waitForSmartWallet
  called,      \* wallet-utils: function name |-> what it returned for wallets
  now,         \* waitForSmartWallet: Date.now(), in units of the check interval
  waiting,     \* set holding [startTime, checkInterval, maxWaitTime] of the call, if any
  timer,       \* set holding the time the pending setTimeout(check) is due, if any
  lastCheck,   \* set holding [elapsed, waapWallet, odd] of the latest run of check
  settled,     \* sequence of the calls of resolve and reject
  ready,         \* WaaPProvider: the state ready
  authenticated, \* the state authenticated
  user,          \* the state user: set holding the WaaPUser, empty for null
  waapProvider,  \* the state waapProvider: set holding window.waap, empty for null
  isWaaPReady,   \* the state isWaaPReady
  pendingEmail,  \* the state pendingEmail: set holding the email, empty for null
  storage,       \* localStorage: set holding the user stored as waap_user, if any
  nodeEnv,       \* process.env.NODE_ENV
  initPc,        \* position of initializeWaaP
  initMethod,    \* checkExistingSession: set holding its loginMethod while it awaits
  loginPc,       \* position of the login call in flight, "idle" for none
  loginLocal,    \* its locals: loginType, address, and whether loginWithCode awaits it
  logoutPc,      \* position of the logout call in flight, "idle" for none
  ended          \* the calls that ended in the latest step: <<function, "returned" or "raised">>

\* the state of one waitForSmartWallet call
waitVars == <<now, waiting, timer, lastCheck, settled>>

\* the state of the WaaPProvider component, the wallets list apart
providerVars ==
  <<ready, authenticated, user, waapProvider, isWaaPReady, pendingEmail, storage,
    nodeEnv, initPc, initMethod, loginPc, loginLocal, logoutPc, ended>>

vars == <<pc, params, registry, submitted, awaited, userOpHash, receipt, thrown,
          returned, raised, previous, wallets, called, waitVars, providerVars>>

\* what a step of sendPaymentWithKernel leaves alone
outside == <<previous, wallets, called, waitVars, providerVars>>

----------------------------------------------------------------------------
(* Bounds of the model *)

\* longest amount string enumerated (besides the examples of the spec)
MaxAmountLen == 2
\* number of message fragments concatenated into one error message
MaxFrags == 2
\* longest wallet list handed to the functions of wallet-utils
MaxWallets == 2
\* largest finite maxWaitTime and largest checkInterval of waitForSmartWallet
MaxWaitTime == 2
MaxCheckInterval == 1

----------------------------------------------------------------------------
(* JavaScript string primitives *)

CharAt(s, i) == SubSeq(s, i, i)

\* String.prototype.includes
includes(s, p) ==
  \E i \in 1..(Len(s) - Len(p) + 1) : SubSeq(s, i, i + Len(p) - 1) = p

\* String.prototype.startsWith
startsWith(s, p) == Len(s) >= Len(p) /\ SubSeq(s, 1, Len(p)) = p

Upper == <<"A","B","C","D","E","F","G","H","I","J","K","L","M",
           "N","O","P","Q","R","S","T","U","V","W","X","Y","Z">>
Lower == <<"a","b","c","d","e","f","g","h","i","j","k","l","m",
           "n","o","p","q","r","s","t","u","v","w","x","y","z">>

\* the lower-case letter of each upper-case letter
LowerOf == [c \in {Upper[k] : k \in 1..26} |-> Lower[CHOOSE k \in 1..26 : Upper[k] = c]]

LowerChar(c) == IF c \in DOMAIN LowerOf THEN LowerOf[c] ELSE c

RECURSIVE toLowerCase(_)
\* String.prototype.toLowerCase
toLowerCase(s) ==
  IF Len(s) = 0 THEN s
  ELSE LowerChar(CharAt(s, 1)) \o toLowerCase(SubSeq(s, 2, Len(s)))

Digits == {"0","1","2","3","4","5","6","7","8","9"}
HexChars == Digits \cup {"a","b","c","d","e","f","A","B","C","D","E","F"}

\* all characters of s from position i on are in set cs
AllIn(s, i, cs) == \A k \in i..Len(s) : CharAt(s, k) \in cs

\* length of the longest run of characters of cs starting at position i
RECURSIVE RunLen(_, _, _)
RunLen(s, i, cs) ==
  IF i <= Len(s) /\ CharAt(s, i) \in cs THEN 1 + RunLen(s, i + 1, cs) ELSE 0

RECURSIVE StripLeadingZeros(_)
\* BigInt(digits) printed back in decimal: no leading zeros, "0" for zero
StripLeadingZeros(d) ==
  IF Len(d) = 0 THEN "0"
  ELSE IF Len(d) > 1 /\ CharAt(d, 1) = "0" THEN StripLeadingZeros(SubSeq(d, 2, Len(d)))
  ELSE d

RECURSIVE Zeros(_)
Zeros(n) == IF n <= 0 THEN "" ELSE "0" \o Zeros(n - 1)

----------------------------------------------------------------------------
(* Values thrown and caught.  A thrown value is an Error object with a     *)
(* message, a bare string, or undefined.                                   *)

NewError(m) == [kind |-> "Error", message |-> m]
ThrownString(m) == [kind |-> "string", message |-> m]
ThrownUndefined == [kind |-> "undefined", message |-> "undefined"]

\* !error
Falsy(error) ==
  error.kind = "undefined" \/ (error.kind = "string" /\ error.message = "")

\* error instanceof Error
instanceofError(error) == error.kind = "Error"

\* String(error) of a value that is not an Error object
StringOf(error) == error.message

isEncodingError(error) ==
  IF Falsy(error) THEN FALSE
  ELSE LET errorStr == IF instanceofError(error) THEN error.message ELSE StringOf(error)
       IN  \/ includes(errorStr, "invalid codepoint")
           \/ includes(errorStr, "missing continuation byte")
           \/ includes(errorStr, "strings/5.7.0")

----------------------------------------------------------------------------
(* Texts of the outcomes (accents and emoji written in ASCII) *)

InvalidAddressText == "Direccion de destino invalida"
InvalidAmountText == "Monto invalido. Debe ser un numero mayor a 0"
UnconfiguredText(currency) ==
  "Direccion del contrato para " \o currency \o
  " no configurada. Por favor, actualiza lib/celo.ts con la direccion correcta."
NoHashText == "No se encontro el hash de transaccion en el recibo"
EncodingNoticeText ==
  "La transaccion fue enviada pero hubo un error al procesar la respuesta. Por favor verifica en el explorador de blockchain."
UnknownErrorText == "Error desconocido"
FundingSuffix ==
  ". Asegurate de tener fondos suficientes y que el paymaster este financiado."
QuotaGuidanceText ==
  "El paymaster de Pimlico tiene un limite mensual.\n\n" \o
  "Por favor verifica tu plan en el dashboard de Pimlico.\n\n" \o
  "Opciones:\n" \o
  "1. Verificar fondos del paymaster en Pimlico dashboard\n" \o
  "2. Actualizar plan si es necesario\n" \o
  "3. Usar Alfajores (testnet) para desarrollo"

Failure(text) == [success |-> FALSE, error |-> text]

----------------------------------------------------------------------------
(* lib/celo.ts *)

ExplorerBase == "https://celoscan.io"

getCeloExplorerUrl(hash, type) == ExplorerBase \o "/" \o type \o "/" \o hash

CUSD == "0x765de816845861e75a25fca122bb6898b8b1282a"

\* cUSD has a contract address, PSY has an empty one, every other symbol
\* has no entry
CELO_STABLE_TOKENS == [c \in {"cUSD", "PSY"} |-> IF c = "cUSD" THEN CUSD ELSE ""]

----------------------------------------------------------------------------
(* The top-level catch of sendPaymentWithKernel *)

errorMessageOf_unknown(error) == UnknownErrorText

errorMessageOf(error) ==
  IF instanceofError(error) THEN error.message ELSE UnknownErrorText

IsFundingMessage_balanceOnly(errorMessage) ==
  includes(toLowerCase(errorMessage), "balance")

IsFundingMessage(errorMessage) ==
  LET lower == toLowerCase(errorMessage)
  IN  \/ includes(lower, "fund")
      \/ includes(lower, "balance")
      \/ includes(lower, "insufficient")

IsQuotaMessage_monthlyOnly(errorMessage) ==
  includes(toLowerCase(errorMessage), "monthly")

IsQuotaMessage(errorMessage) ==
  LET lower == toLowerCase(errorMessage)
  IN  \/ includes(lower, "monthly")
      \/ includes(lower, "sponsorship limit")
      \/ includes(lower, "billing plan")
      \/ includes(lower, "upgrade your billing")

TopLevelCatch_optimistic(error) ==
  IF isEncodingError(error)
  THEN [success |-> TRUE]
  ELSE Failure(errorMessageOf(error))

TopLevelCatch_generic(error) == Failure(UnknownErrorText)

TopLevelCatch_withCurrency(error) ==
  Failure(errorMessageOf(error) \o " (" \o params.currency \o ")")

TopLevelCatch(error) ==
  IF isEncodingError(error)
  THEN Failure(EncodingNoticeText)
  ELSE LET errorMessage == errorMessageOf(error)
       IN  IF IsFundingMessage(errorMessage)
           THEN Failure(errorMessage \o FundingSuffix)
           ELSE IF IsQuotaMessage(errorMessage)
           THEN Failure(QuotaGuidanceText)
           ELSE Failure(errorMessage)

\* outcomes of a piece of the try body
Return(result) == [kind |-> "return", result |-> result]
Throw(error) == [kind |-> "throw", error |-> error]

TryCatch_rethrow(o) ==
  IF o.kind = "throw"
  THEN IF instanceofError(o.error)
       THEN Return(TopLevelCatch(o.error))
       ELSE [kind |-> "raise", error |-> o.error]
  ELSE o

\* try { ... } catch (error) { ... }: whatever the body throws is turned into
\* a returned PaymentResult
TryCatch(o) ==
  IF o.kind = "throw" THEN Return(TopLevelCatch(o.error)) ELSE o

----------------------------------------------------------------------------
(* viem: parseUnits / parseEther, isAddress, encodeFunctionData; and the    *)
(* global parseFloat                                                       *)

\* parseFloat(s): the longest prefix [+-]digits[.digits] decides whether the
\* result is NaN, its sign and whether it is zero (a following exponent
\* changes none of the three)
parseFloat(s) ==
  LET signLen == IF Len(s) >= 1 /\ CharAt(s, 1) \in {"-", "+"} THEN 1 ELSE 0
      i       == signLen + 1
      intLen  == RunLen(s, i, Digits)
      hasDot  == i + intLen <= Len(s) /\ CharAt(s, i + intLen) = "."
      fracLen == IF hasDot THEN RunLen(s, i + intLen + 1, Digits) ELSE 0
      digits  == SubSeq(s, i, i + intLen - 1) \o
                 (IF hasDot THEN SubSeq(s, i + intLen + 1, i + intLen + fracLen) ELSE "")
  IN  [nan  |-> intLen = 0 /\ fracLen = 0,
       neg  |-> signLen = 1 /\ CharAt(s, 1) = "-",
       zero |-> AllIn(digits, 1, {"0"})]

isNaN(f) == f.nan

\* f <= 0 (false for NaN)
LeqZero(f) == ~f.nan /\ (f.neg \/ f.zero)

RECURSIVE StripTrailingZeros(_)
\* fraction.replace(/(0+)$/, '')
StripTrailingZeros(d) ==
  IF Len(d) > 0 /\ CharAt(d, Len(d)) = "0"
  THEN StripTrailingZeros(SubSeq(d, 1, Len(d) - 1))
  ELSE d

\* parseUnits(value, decimals): a decimal string to an integer of the
\* smallest unit, written in decimal digits; throws on a string that is not
\* -?digits*.?digits*.  The rounding branch for fractions longer than
\* decimals digits is outside the amounts enumerated here and is cut off.
parseUnits(value, decimals) ==
  LET s0       == IF startsWith(value, "-") THEN 2 ELSE 1
      intLen   == RunLen(value, s0, Digits)
      afterInt == s0 + intLen
      hasDot   == afterInt <= Len(value) /\ CharAt(value, afterInt) = "."
      fracAt   == IF hasDot THEN afterInt + 1 ELSE afterInt
      fracLen  == RunLen(value, fracAt, Digits)
      matches  == fracAt + fracLen = Len(value) + 1
      integer  == SubSeq(value, s0, afterInt - 1)
      frac0    == IF hasDot THEN SubSeq(value, fracAt, fracAt + fracLen - 1) ELSE "0"
      frac1    == StripTrailingZeros(frac0)
      fraction == IF Len(frac1) > decimals
                  THEN SubSeq(frac1, 1, decimals)
                  ELSE frac1 \o Zeros(decimals - Len(frac1))
      magnitude == StripLeadingZeros(integer \o fraction)
  IN  IF ~matches
      THEN Throw(NewError("Number " \o value \o " is not a valid decimal number."))
      ELSE [kind  |-> "value",
            value |-> IF s0 = 2 /\ magnitude # "0" THEN "-" \o magnitude ELSE magnitude]

\* parseEther(ether) = parseUnits(ether, 18)
parseEther(ether) == parseUnits(ether, 18)

\* isAddress(address): 0x and 40 hex digits (the addresses enumerated here
\* are all lower case, for which there is no checksum to match)
isAddress(address) ==
  /\ Len(address) = 42
  /\ startsWith(address, "0x")
  /\ AllIn(address, 3, HexChars)

\* encodeFunctionData for transfer(address to, uint256 amount): the selector
\* followed by the two argument words; throws on an invalid address
encodeFunctionData(to, amountInWei) ==
  IF ~isAddress(to)
  THEN Throw(NewError("Address " \o to \o " is invalid."))
  ELSE [kind |-> "value", value |-> <<"a9059cbb", toLowerCase(to), amountInWei>>]

----------------------------------------------------------------------------
(* sendPaymentWithKernel, up to its first await *)

\* the address check of the validation
AddressRejected(to) ==
  to = "" \/ ~startsWith(to, "0x") \/ Len(to) # 42

\* the amount check of the validation
AmountRejected(amountStr) ==
  LET amount == parseFloat(amountStr)
  IN  isNaN(amount) \/ LeqZero(amount)

TokenAddress_any(reg, currency) == CUSD

\* CELO_STABLE_TOKENS[params.currency]; "" stands for undefined as well
TokenAddress(reg, currency) ==
  IF currency \in DOMAIN reg THEN reg[currency] ELSE ""

Submit(call) == [kind |-> "submit", call |-> call]

NativePath_gwei(p) ==
  LET amountInWei == parseUnits(p.amount, 9)
  IN  IF amountInWei.kind = "throw" THEN amountInWei
      ELSE Submit([to |-> p.to, value |-> amountInWei.value, data |-> <<>>])

NativePath(p) ==
  LET amountInWei == parseEther(p.amount)
  IN  IF amountInWei.kind = "throw" THEN amountInWei
      ELSE Submit([to |-> p.to, value |-> amountInWei.value, data |-> <<>>])

TokenPath_withValue(p, reg) ==
  LET tokenAddress == TokenAddress(reg, p.currency)
      amountInWei  == parseUnits(p.amount, 18)
      data         == encodeFunctionData(p.to, amountInWei.value)
  IN  IF tokenAddress = ""
      THEN Return(Failure(UnconfiguredText(p.currency)))
      ELSE IF amountInWei.kind = "throw" THEN amountInWei
      ELSE IF data.kind = "throw" THEN data
      ELSE Submit([to |-> tokenAddress, value |-> amountInWei.value, data |-> data.value])

TokenPath_toRecipient(p, reg) ==
  LET tokenAddress == TokenAddress(reg, p.currency)
      amountInWei  == parseUnits(p.amount, 18)
      data         == encodeFunctionData(p.to, amountInWei.value)
  IN  IF tokenAddress = ""
      THEN Return(Failure(UnconfiguredText(p.currency)))
      ELSE IF amountInWei.kind = "throw" THEN amountInWei
      ELSE IF data.kind = "throw" THEN data
      ELSE Submit([to |-> p.to, value |-> "0", data |-> data.value])

TokenPath(p, reg) ==
  LET tokenAddress == TokenAddress(reg, p.currency)
      amountInWei  == parseUnits(p.amount, 18)
      data         == encodeFunctionData(p.to, amountInWei.value)
  IN  IF tokenAddress = ""
      THEN Return(Failure(UnconfiguredText(p.currency)))
      ELSE IF amountInWei.kind = "throw" THEN amountInWei
      ELSE IF data.kind = "throw" THEN data
      ELSE Submit([to |-> tokenAddress, value |-> "0", data |-> data.value])

\* the try body from its start to the call of sendUserOperation
TryBodyStart(p, reg) ==
  IF AddressRejected(p.to) THEN Return(Failure(InvalidAddressText))
  ELSE IF AmountRejected(p.amount) THEN Return(Failure(InvalidAmountText))
  ELSE IF p.currency = "CELO" THEN NativePath(p)
  ELSE TokenPath(p, reg)

----------------------------------------------------------------------------
(* sendPaymentWithKernel, after sendUserOperation resolved *)

Settled_userOp(userOp, hash) ==
  [success |-> TRUE, transactionHash |-> userOp,
   explorerUrl |-> getCeloExplorerUrl(userOp, "tx")]

\* the PaymentResult of a confirmed transfer
Settled(userOp, hash) ==
  [success |-> TRUE, transactionHash |-> hash,
   explorerUrl |-> getCeloExplorerUrl(hash, "tx")]

AfterReceipt_unchecked(userOp, hash) ==
  Return(IF hash = "" THEN [success |-> TRUE, explorerUrl |-> getCeloExplorerUrl("undefined", "tx")]
         ELSE Settled(userOp, hash))

\* after the wait resolved: hash is receipt?.receipt?.transactionHash, ""
\* when the receipt has none
AfterReceipt(userOp, hash) ==
  IF hash = "" THEN Throw(NewError(NoHashText))
  ELSE Return(Settled(userOp, hash))

\* catch (receiptError) around waitForUserOperationReceipt
ReceiptCatch(userOp, receiptError) ==
  IF isEncodingError(receiptError)
  THEN Return([success |-> TRUE, transactionHash |-> userOp,
               explorerUrl |-> getCeloExplorerUrl(userOp, "tx")])
  ELSE Throw(receiptError)

----------------------------------------------------------------------------
(* Inputs *)

RECURSIVE StringsUpTo(_, _)
\* the strings over the characters cs of length at most n
StringsUpTo(cs, n) ==
  IF n = 0 THEN {""}
  ELSE LET shorter == StringsUpTo(cs, n - 1)
       IN  shorter \cup {s \o c : s \in shorter, c \in cs}

ValidTo == "0xd0563bba8e42b6ab0ecdfc1f0ea1486c5c28ba3b"
NonHexTo == "0xzz563bba8e42b6ab0ecdfc1f0ea1486c5c28ba3b"

Recipients ==
  {"", ValidTo, NonHexTo,
   SubSeq(ValidTo, 1, 41),            \* one digit short
   ValidTo \o "0",                    \* one digit long
   "00" \o SubSeq(ValidTo, 3, 42)}    \* 42 characters without the prefix

AmountChars == {"0", "1", ".", "-", "a"}
Amounts == StringsUpTo(AmountChars, MaxAmountLen) \cup {"1.0", "10.5"}

Currencies == {"CELO", "cUSD", "PSY", "USDT"}

Fragments ==
  {"invalid codepoint", "missing continuation byte", "strings/5.7.0",
   "insufficient funds", "Balance", "billing plan", "Monthly sponsorship limit",
   "timeout"}
Messages == StringsUpTo(Fragments, MaxFrags)

ThrownValues ==
  {NewError(m) : m \in Messages} \cup {ThrownString(m) : m \in Messages}
    \cup {ThrownUndefined}

UserOpHashes == {"0xuserop1", "0xuserop2"}
ReceiptHashes == {"0xtxhash1", "0xuserop1", ""}

----------------------------------------------------------------------------
(* The call as a state machine *)

\* the locals of login while no call is in flight
NoLogin == [loginType |-> "", address |-> "", viaCode |-> FALSE]

\* no WaaPProvider is mounted
NotMounted ==
  /\ ready = FALSE
  /\ authenticated = FALSE
  /\ user = {}
  /\ waapProvider = {}
  /\ isWaaPReady = FALSE
  /\ pendingEmail = {}
  /\ storage = {}
  /\ nodeEnv = "production"
  /\ initPc = "unmounted"
  /\ initMethod = {}
  /\ loginPc = "idle"
  /\ loginLocal = NoLogin
  /\ logoutPc = "idle"
  /\ ended = {}

\* waitForSmartWallet has not been called
NotWaiting ==
  /\ now = 0
  /\ waiting = {}
  /\ timer = {}
  /\ lastCheck = {}
  /\ settled = <<>>

NoParams == [to |-> "", amount |-> "", currency |-> ""]

Init ==
  /\ pc = "idle"
  /\ params = NoParams
  /\ registry = CELO_STABLE_TOKENS
  /\ submitted = <<>>
  /\ awaited = <<>>
  /\ userOpHash = {}
  /\ receipt = {}
  /\ thrown = <<>>
  /\ returned = {}
  /\ raised = {}
  /\ previous = {}
  /\ wallets = <<>>
  /\ called = <<>>
  /\ NotWaiting
  /\ NotMounted

\* the call ends: it returns a PaymentResult or raises
Finish(o) ==
  /\ pc' = "done"
  /\ returned' = IF o.kind = "return" THEN {o.result} ELSE {}
  /\ raised' = IF o.kind = "raise" THEN {o.error} ELSE {}

\* the call starts and runs to its first await, or to its end; its
\* parameters are drawn from the given sets
StartOn(tos, amounts, currencies) ==
  /\ pc = "idle"
  /\ \E to \in tos, amount \in amounts, currency \in currencies :
       LET p    == [to |-> to, amount |-> amount, currency |-> currency]
           body == TryBodyStart(p, registry)
           o    == TryCatch(body)
       IN  /\ params' = p
           /\ thrown' = IF body.kind = "throw"
                        THEN Append(thrown, <<"encode", body.error>>) ELSE thrown
           /\ IF o.kind = "submit"
              THEN /\ submitted' = Append(submitted, <<o.call>>)
                   /\ pc' = "submitting"
                   /\ UNCHANGED <<returned, raised>>
              ELSE /\ Finish(o)
                   /\ UNCHANGED submitted
  /\ UNCHANGED <<registry, awaited, userOpHash, receipt>>
  /\ UNCHANGED outside

Start == StartOn(Recipients, Amounts, Currencies)

SubmitReturns_stale ==
  /\ pc = "submitting"
  /\ \E u \in UserOpHashes, v \in UserOpHashes :
       /\ userOpHash' = {u}
       /\ awaited' = Append(awaited, v)
  /\ pc' = "waiting"
  /\ UNCHANGED <<params, registry, submitted, receipt, thrown, returned, raised>>
  /\ UNCHANGED outside

\* sendUserOperation resolves with a hash: waitForUserOperationReceipt is called
SubmitReturns ==
  /\ pc = "submitting"
  /\ \E u \in UserOpHashes :
       /\ userOpHash' = {u}
       /\ awaited' = Append(awaited, u)
  /\ pc' = "waiting"
  /\ UNCHANGED <<params, registry, submitted, receipt, thrown, returned, raised>>
  /\ UNCHANGED outside

\* sendUserOperation rejects with one of the given values
SubmitThrowsOn(errors) ==
  /\ pc = "submitting"
  /\ \E e \in errors :
       /\ thrown' = Append(thrown, <<"submit", e>>)
       /\ Finish(TryCatch(Throw(e)))
  /\ UNCHANGED <<params, registry, submitted, awaited, userOpHash, receipt>>
  /\ UNCHANGED outside

SubmitThrows == SubmitThrowsOn(ThrownValues)

\* waitForUserOperationReceipt resolves
ReceiptReturns ==
  /\ pc = "waiting"
  /\ \E u \in userOpHash, h \in ReceiptHashes :
       LET body == AfterReceipt(u, h)
       IN  /\ receipt' = {h}
           /\ thrown' = IF body.kind = "throw"
                        THEN Append(thrown, <<"receipt", body.error>>) ELSE thrown
           /\ Finish(TryCatch(body))
  /\ UNCHANGED <<params, registry, submitted, awaited, userOpHash>>
  /\ UNCHANGED outside

ReceiptThrows_retry ==
  /\ pc = "waiting"
  /\ \E u \in userOpHash, e \in ThrownValues :
       IF isEncodingError(e) \/ Len(submitted) > 1
       THEN /\ thrown' = Append(thrown, <<"wait", e>>)
            /\ Finish(TryCatch(ReceiptCatch(u, e)))
            /\ UNCHANGED submitted
       ELSE /\ submitted' = Append(submitted, submitted[1])
            /\ pc' = "submitting"
            /\ UNCHANGED <<thrown, returned, raised>>
  /\ UNCHANGED <<params, registry, awaited, userOpHash, receipt>>
  /\ UNCHANGED outside

\* waitForUserOperationReceipt rejects with one of the given values
ReceiptThrowsOn(errors) ==
  /\ pc = "waiting"
  /\ \E u \in userOpHash, e \in errors :
       /\ thrown' = Append(thrown, <<"wait", e>>)
       /\ Finish(TryCatch(ReceiptCatch(u, e)))
  /\ UNCHANGED <<params, registry, submitted, awaited, userOpHash, receipt>>
  /\ UNCHANGED outside

ReceiptThrows == ReceiptThrowsOn(ThrownValues)

Next ==
  \/ Start
  \/ SubmitReturns
  \/ SubmitThrows
  \/ ReceiptReturns
  \/ ReceiptThrows

Spec == Init /\ [][Next]_vars

----------------------------------------------------------------------------
(* Two calls in a row, the second after the first has ended *)

RepeatRecipients == {ValidTo}
RepeatAmounts == {"10.5", "1a"}
RepeatCurrencies == {"CELO", "cUSD"}
RepeatThrownValues ==
  {NewError(m) : m \in Fragments} \cup {ThrownString(m) : m \in Fragments}
    \cup {ThrownUndefined}

RepeatStart == StartOn(RepeatRecipients, RepeatAmounts, RepeatCurrencies)
RepeatSubmitThrows == SubmitThrowsOn(RepeatThrownValues)
RepeatReceiptThrows == ReceiptThrowsOn(RepeatThrownValues)

\* the caller calls sendPaymentWithKernel again: what the first call threw
\* and returned is kept for comparison
Again ==
  /\ pc = "done"
  /\ previous = {}
  /\ previous' = {<<thrown, returned>>}
  /\ pc' = "idle"
  /\ params' = NoParams
  /\ submitted' = <<>>
  /\ awaited' = <<>>
  /\ userOpHash' = {}
  /\ receipt' = {}
  /\ thrown' = <<>>
  /\ returned' = {}
  /\ raised' = {}
  /\ UNCHANGED <<registry, wallets, called, waitVars, providerVars>>

NextRepeat ==
  \/ RepeatStart
  \/ SubmitReturns
  \/ RepeatSubmitThrows
  \/ ReceiptReturns
  \/ RepeatReceiptThrows
  \/ Again

SpecRepeat == Init /\ [][NextRepeat]_vars

----------------------------------------------------------------------------
(* Vocabulary of the properties *)

Done == pc = "done"

\* the call threw once inside the try, at the given stage
ThrownAt(stage) == Len(thrown) = 1 /\ thrown[1][1] = stage
ThrownValue == thrown[1][2]

\* the text of a thrown value matches the known-defect signature set
MatchesKnownDefect(e) ==
  /\ ~Falsy(e)
  /\ \E sig \in {"invalid codepoint", "missing continuation byte", "strings/5.7.0"} :
       includes(e.message, sig)

\* the call returned exactly one PaymentResult and it satisfies P
ReturnedOne(P(_)) == Cardinality(returned) = 1 /\ \A r \in returned : P(r)

NoNetworkCall == submitted = <<>> /\ awaited = <<>>

----------------------------------------------------------------------------
(* C1 *)

C1_Shape(r) ==
  \A u \in userOpHash :
    /\ r.success
    /\ "transactionHash" \in DOMAIN r /\ r.transactionHash = u
    /\ "explorerUrl" \in DOMAIN r /\ r.explorerUrl = getCeloExplorerUrl(u, "tx")
    /\ "error" \in DOMAIN r

\* C1: when waitForUserOperationReceipt fails with an Error whose message
\* contains "invalid codepoint", the call returns success = true with the
\* user operation hash as transactionHash, the explorer URL of that hash, and
\* a caveat (the one remaining field of PaymentResult, error) in the outcome.
C1_BenignDowngradeCarriesCaveat ==
  (Done /\ ThrownAt("wait") /\ instanceofError(ThrownValue)
        /\ includes(ThrownValue.message, "invalid codepoint"))
    => ReturnedOne(C1_Shape)

----------------------------------------------------------------------------
(* C2 *)

C2_Shape(r) ==
  /\ (awaited = <<>> => ~r.success)
  /\ ((ThrownAt("wait") /\ r.success) => MatchesKnownDefect(ThrownValue))

\* C2: an outcome of a call that never reached the confirmation wait
\* (validation failed, encoding failed or sendUserOperation failed, whatever
\* the message) has success = false, and a failed wait gives success = true
\* only when the thrown text matches the known-defect signature set.
C2_OnlyWaitFailureDowngraded == Done => \A r \in returned : C2_Shape(r)

\* sendUserOperation failed with a known-defect message and the outcome is a failure
C2_Witness ==
  /\ Done /\ ThrownAt("submit") /\ MatchesKnownDefect(ThrownValue)
  /\ \E r \in returned : ~r.success

----------------------------------------------------------------------------
(* C3 *)

HardWaitFailure ==
  Done /\ ThrownAt("wait") /\ ~MatchesKnownDefect(ThrownValue)

C3_ClaimShape(r) ==
  ~r.success /\ "error" \in DOMAIN r /\ includes(r.error, ThrownValue.message)

\* C3 as stated: a failed wait whose message matches no known-defect
\* substring gives success = false and an error text carrying the original
\* message, for every such Error or thrown string.
C3_HardFailureCarriesMessage ==
  (HardWaitFailure /\ ThrownValue.kind \in {"Error", "string"})
    => ReturnedOne(C3_ClaimShape)

C3_AmendedShape(r) ==
  /\ ~r.success
  /\ "error" \in DOMAIN r
  /\ IF ~instanceofError(ThrownValue)
     THEN r.error = UnknownErrorText
     ELSE IF IsQuotaMessage(ThrownValue.message) /\ ~IsFundingMessage(ThrownValue.message)
     THEN r.error = QuotaGuidanceText
     ELSE includes(r.error, ThrownValue.message)

\* C3 amended: a failed wait whose text matches no known-defect substring
\* gives success = false; the error text carries the original message when
\* the thrown value is an Error whose message is funding-related or is not
\* sponsorship-quota-related; for a quota-related message it is the fixed
\* quota guidance and for a thrown value that is no Error object it is
\* "Error desconocido".
C3_HardFailureClassified == HardWaitFailure => ReturnedOne(C3_AmendedShape)

\* a failed wait with a quota message, answered with the quota guidance
C3_Witness ==
  /\ HardWaitFailure /\ instanceofError(ThrownValue)
  /\ includes(ThrownValue.message, "billing plan")
  /\ returned = {Failure(QuotaGuidanceText)}

----------------------------------------------------------------------------
(* C4 *)

SubmitFailed == Done /\ ThrownAt("submit") /\ instanceofError(ThrownValue)

C4_ClaimShape(r) ==
  ~r.success /\ awaited = <<>> /\ "error" \in DOMAIN r /\ r.error = ThrownValue.message

\* C4 as stated: when sendUserOperation fails, the outcome is a failure, the
\* wait is never called and the error is the submission error's message
\* verbatim, for every message.
C4_SubmitErrorVerbatim == SubmitFailed => ReturnedOne(C4_ClaimShape)

C4_AmendedShape(r) ==
  LET m == ThrownValue.message
  IN  /\ ~r.success
      /\ awaited = <<>>
      /\ "error" \in DOMAIN r
      /\ r.error = IF MatchesKnownDefect(ThrownValue) THEN EncodingNoticeText
                   ELSE IF IsFundingMessage(m) THEN m \o FundingSuffix
                   ELSE IF IsQuotaMessage(m) THEN QuotaGuidanceText
                   ELSE m

\* C4 amended: when sendUserOperation fails, the outcome is a failure and the
\* wait is never called; the error is the message verbatim when it matches no
\* known-defect, funding or quota substring, and otherwise the fixed
\* response-processing notice, the message with the funding guidance
\* appended, or the fixed quota guidance, in this order of precedence.
C4_SubmitErrorClassified == SubmitFailed => ReturnedOne(C4_AmendedShape)

\* sendUserOperation failed with a plain message, returned verbatim
C4_Witness ==
  /\ SubmitFailed /\ ThrownValue.message = "timeout"
  /\ returned = {Failure("timeout")}
  /\ awaited = <<>>

----------------------------------------------------------------------------
(* C5 *)

C5_Shape(r) ==
  /\ "success" \in DOMAIN r
  /\ r.success \in BOOLEAN
  /\ r.success => "transactionHash" \in DOMAIN r
  /\ ~r.success => "error" \in DOMAIN r

\* C5: the call never raises; whenever it has ended it has returned one
\* PaymentResult, success-shaped or failure-shaped.
C5_NeverRaises == raised = {} /\ (Done => ReturnedOne(C5_Shape))

\* the receipt lacked a hash, or a value that is no Error was thrown by the
\* wait, and the call returned a failure
C5_Witness ==
  /\ Done
  /\ \/ receipt = {""}
     \/ ThrownAt("wait") /\ ~instanceofError(ThrownValue) /\ ~MatchesKnownDefect(ThrownValue)
  /\ \E r \in returned : ~r.success

----------------------------------------------------------------------------
(* C6 *)

\* C6: when the wait resolves with transaction hash H, the outcome is
\* success = true with transactionHash = H and the explorer URL of H, and
\* nothing else.
C6_SettledWithReceiptHash ==
  \A h \in receipt :
    (Done /\ h # "") =>
      returned = {[success |-> TRUE, transactionHash |-> h,
                   explorerUrl |-> getCeloExplorerUrl(h, "tx")]}

\* settled with a transaction hash that differs from the user operation hash
C6_Witness ==
  /\ Done
  /\ \E h \in receipt, u \in userOpHash :
       h # "" /\ h # u /\ \E r \in returned : r.transactionHash = h

----------------------------------------------------------------------------
(* C7 *)

\* a 0x-prefixed 20-byte hex address
WellFormedAddress(to) ==
  /\ Len(to) = 42
  /\ SubSeq(to, 1, 2) = "0x"
  /\ \A k \in 3..42 : CharAt(to, k) \in HexChars

\* C7: for every recipient that is not a well-formed 0x-prefixed 20-byte hex
\* address (the amount being a valid one, "10.5") the call returns the invalid-address failure and neither
\* sendUserOperation nor waitForUserOperationReceipt is called.
C7_MalformedRecipientRejected ==
  (pc # "idle" /\ ~WellFormedAddress(params.to) /\ params.amount = "10.5")
    => /\ Done
       /\ NoNetworkCall
       /\ returned = {Failure(InvalidAddressText)}

----------------------------------------------------------------------------
(* C8 *)

\* the whole string is a decimal number: -?digits(.digits*)? or -?.digits
IsDecimalNumber(s) ==
  LET i       == IF Len(s) >= 1 /\ CharAt(s, 1) = "-" THEN 2 ELSE 1
      intLen  == RunLen(s, i, Digits)
      hasDot  == i + intLen <= Len(s) /\ CharAt(s, i + intLen) = "."
      fracLen == IF hasDot THEN RunLen(s, i + intLen + 1, Digits) ELSE 0
  IN  /\ intLen + fracLen > 0
      /\ i + intLen + (IF hasDot THEN 1 ELSE 0) + fracLen = Len(s) + 1

\* a decimal number whose value is <= 0
DenotesNonPositive(s) ==
  /\ IsDecimalNumber(s)
  /\ \/ CharAt(s, 1) = "-"
     \/ \A k \in 1..Len(s) : CharAt(s, k) \in {"0", "."}

\* C8: for a well-formed recipient and every amount string that is not a
\* number (a numeric prefix followed by other characters included) or that
\* denotes a value <= 0, the call returns the invalid-amount failure and
\* makes no network call.
C8_BadAmountRejected ==
  (/\ pc # "idle"
   /\ WellFormedAddress(params.to)
   /\ (~IsDecimalNumber(params.amount) \/ DenotesNonPositive(params.amount)))
    => /\ Done
       /\ NoNetworkCall
       /\ returned = {Failure(InvalidAmountText)}

----------------------------------------------------------------------------
(* C9 *)

\* the asset is a token without a contract address in the registry
Unconfigured(currency) ==
  /\ currency # "CELO"
  /\ \/ currency \notin DOMAIN CELO_STABLE_TOKENS
     \/ CELO_STABLE_TOKENS[currency] = ""

C9_Shape(r) ==
  /\ ~r.success
  /\ "error" \in DOMAIN r
  /\ (~AddressRejected(params.to) /\ ~AmountRejected(params.amount))
       => /\ includes(r.error, params.currency)
          /\ includes(r.error, "no configurada")

\* C9: a token transfer whose asset has no contract address in the registry
\* ends at once with a failure-shaped outcome, which names the asset when
\* recipient and amount passed validation; sendUserOperation and
\* waitForUserOperationReceipt are not called and the registry is unchanged.
C9_UnconfiguredAssetFails ==
  (pc # "idle" /\ Unconfigured(params.currency))
    => /\ Done
       /\ ReturnedOne(C9_Shape)
       /\ NoNetworkCall
       /\ registry = CELO_STABLE_TOKENS

\* a valid transfer of an unconfigured token, refused by name
C9_Witness ==
  /\ Done
  /\ params = [to |-> ValidTo, amount |-> "10.5", currency |-> "PSY"]
  /\ returned = {Failure(UnconfiguredText("PSY"))}
  /\ NoNetworkCall

----------------------------------------------------------------------------
(* C10 *)

InsufficientFundsAtWait ==
  /\ Done /\ ThrownAt("wait") /\ instanceofError(ThrownValue)
  /\ includes(ThrownValue.message, "insufficient funds")

C10_Shape(r) ==
  /\ ~r.success
  /\ "error" \in DOMAIN r
  /\ r.error = ThrownValue.message \o FundingSuffix

\* C10 as stated: a failed wait whose message contains "insufficient funds"
\* gives success = false with the funding-guidance message.
C10_InsufficientFundsGuidance == InsufficientFundsAtWait => ReturnedOne(C10_Shape)

\* C10 amended: a failed wait whose message contains "insufficient funds"
\* and none of the known-defect substrings gives success = false with the
\* funding-guidance message (the message followed by the funding advice).
C10_InsufficientFundsGuidanceUnlessBenign ==
  (InsufficientFundsAtWait /\ ~MatchesKnownDefect(ThrownValue))
    => ReturnedOne(C10_Shape)

\* a failed wait with "insufficient funds", answered with the funding guidance
C10_Witness ==
  /\ InsufficientFundsAtWait
  /\ ThrownValue.message = "insufficient funds"
  /\ returned = {Failure("insufficient funds" \o FundingSuffix)}

----------------------------------------------------------------------------
(* C11 *)

BillingPlanAtWait ==
  /\ Done /\ ThrownAt("wait") /\ instanceofError(ThrownValue)
  /\ includes(ThrownValue.message, "billing plan")

\* no funding-related substring, in any letter case
NoFundingWord(m) ==
  \A w \in {"fund", "balance", "insufficient"} : ~includes(toLowerCase(m), w)

C11_Shape(r) ==
  /\ ~r.success
  /\ "error" \in DOMAIN r
  /\ r.error = QuotaGuidanceText
  /\ r.error # ThrownValue.message \o FundingSuffix

\* C11 as stated: a failed wait whose message contains "billing plan" gives
\* success = false with the sponsorship-quota guidance, which is not the
\* funding guidance, whatever else the message contains.
C11_BillingPlanGuidance == BillingPlanAtWait => ReturnedOne(C11_Shape)

\* C11 amended: a failed wait whose message contains "billing plan", none of
\* the known-defect substrings and none of the funding-related substrings
\* gives success = false with the sponsorship-quota guidance, which is not
\* the funding guidance.
C11_BillingPlanGuidanceUnlessEarlierMatch ==
  (/\ BillingPlanAtWait
   /\ ~MatchesKnownDefect(ThrownValue)
   /\ NoFundingWord(ThrownValue.message))
    => ReturnedOne(C11_Shape)

\* a failed wait with "billing plan" and more text, answered with the quota guidance
C11_Witness ==
  /\ BillingPlanAtWait
  /\ ThrownValue.message = "timeoutbilling plan"
  /\ returned = {Failure(QuotaGuidanceText)}

----------------------------------------------------------------------------
(* C12 *)

\* the outcome reports the transaction hash of an obtained receipt
SettledByReceipt(r) ==
  /\ thrown = <<>>
  /\ \E h \in receipt : h # "" /\ r.transactionHash = h

\* the outcome reports the user operation hash after a wait failure that
\* matched the known-defect signature set
AssumedSettled(r) ==
  /\ receipt = {}
  /\ ThrownAt("wait") /\ MatchesKnownDefect(ThrownValue)
  /\ \E u \in userOpHash : r.transactionHash = u

C12_Shape(r) ==
  r.success =>
    /\ "transactionHash" \in DOMAIN r
    /\ r.transactionHash # ""
    /\ SettledByReceipt(r) \/ AssumedSettled(r)

\* C12: every outcome with success = true has a transactionHash, which is the
\* transaction hash of the receipt obtained or, after a wait failure that
\* matched the known defect, the user operation hash; success is returned in
\* no other situation.
C12_SuccessCarriesReference == Done => \A r \in returned : C12_Shape(r)

\* a success outcome that carries the user operation hash
C12_Witness ==
  /\ Done
  /\ \E r \in returned : r.success /\ AssumedSettled(r)

----------------------------------------------------------------------------
(* C13 *)

\* the calls handed to sendUserOperation so far
SubmittedCalls == {submitted[i][k] : i \in 1..Len(submitted), k \in {1}}

C13_Shape(c) ==
  /\ params.currency # "CELO" => c.value = "0"
  /\ c.value # "0" => (params.currency = "CELO" /\ c.data = <<>>)
  /\ ~(c.value # "0" /\ c.data # <<>>)

\* C13: every call handed to sendUserOperation on the token path has value
\* 0; a call with a non-zero value is handed over only on the CELO path and
\* then with empty data; no call handed over has both a non-zero value and
\* call data.
C13_TokenCallsCarryNoValue ==
  /\ \A i \in 1..Len(submitted) : Len(submitted[i]) = 1
  /\ \A c \in SubmittedCalls : C13_Shape(c)

\* a token transfer was handed over: call data and value 0
C13_Witness ==
  /\ params.currency = "cUSD"
  /\ \E c \in SubmittedCalls : c.data # <<>> /\ c.value = "0"

----------------------------------------------------------------------------
(* C14 *)

\* C14: waitForUserOperationReceipt is called only once sendUserOperation has
\* returned a hash, and with exactly that hash; it is not called while the
\* submission is pending, nor when validation, encoding or submission failed.
C14_WaitFollowsSubmission ==
  /\ awaited # <<>> =>
       /\ Len(submitted) = 1
       /\ Cardinality(userOpHash) = 1
       /\ \A u \in userOpHash : awaited = <<u>>
  /\ (pc \in {"idle", "submitting"} \/ submitted = <<>>
        \/ ThrownAt("encode") \/ ThrownAt("submit")) => awaited = <<>>

\* the wait was called with the hash sendUserOperation returned
C14_Witness ==
  /\ pc = "waiting"
  /\ userOpHash = {"0xuserop2"}
  /\ awaited = <<"0xuserop2">>

----------------------------------------------------------------------------
(* C15 *)

\* the stages of one call, in order
StageRank(p) ==
  CASE p = "idle" -> 0
    [] p = "submitting" -> 1
    [] p = "waiting" -> 2
    [] p = "done" -> 3

\* the three terminal outcomes
IsSettled(r) == r.success /\ thrown = <<>> /\ receipt # {}
IsAssumedSettled(r) == r.success /\ ThrownAt("wait")
IsFailed(r) == ~r.success

BoolToNat(b) == IF b THEN 1 ELSE 0

C15_State ==
  /\ Len(submitted) <= 1
  /\ Len(awaited) <= 1
  /\ Len(thrown) <= 1
  /\ raised = {}
  /\ Done =>
       /\ Cardinality(returned) = 1
       /\ \A r \in returned :
            BoolToNat(IsSettled(r)) + BoolToNat(IsAssumedSettled(r))
              + BoolToNat(IsFailed(r)) = 1

\* C15: every step of a call moves it to a later stage, so no stage is
\* visited twice; sendUserOperation and waitForUserOperationReceipt are each
\* called at most once, nothing is retried after a failure, and the call ends
\* in exactly one of settled, assumed settled after the benign defect, failed.
C15_EachStageOnce ==
  [][StageRank(pc') > StageRank(pc) /\ C15_State']_vars

\* a call that failed at the wait after one submission and one wait
C15_Witness ==
  /\ Done /\ ThrownAt("wait")
  /\ Len(submitted) = 1 /\ Len(awaited) = 1
  /\ \E r \in returned : IsFailed(r)

----------------------------------------------------------------------------
(* C16, C17 *)

\* a decimal number as <<integer digits, fraction digits>>, without leading
\* zeros of the integer and trailing zeros of the fraction
CanonDecimal(s) ==
  LET i       == IF Len(s) >= 1 /\ CharAt(s, 1) = "-" THEN 2 ELSE 1
      intLen  == RunLen(s, i, Digits)
      hasDot  == i + intLen <= Len(s) /\ CharAt(s, i + intLen) = "."
      fracLen == IF hasDot THEN RunLen(s, i + intLen + 1, Digits) ELSE 0
  IN  <<StripLeadingZeros(SubSeq(s, i, i + intLen - 1)),
        StripTrailingZeros(IF hasDot THEN SubSeq(s, i + intLen + 1, i + intLen + fracLen)
                           ELSE "")>>

\* the integer w divided by 10^d, in the same form
DividedByPow10(w, d) ==
  LET padded == Zeros(d + 1 - Len(w)) \o w
      n      == Len(padded)
  IN  <<StripLeadingZeros(SubSeq(padded, 1, n - d)),
        StripTrailingZeros(SubSeq(padded, n - d + 1, n))>>

\* w is the integer a * 10^18, written without leading zeros
IsAmountTimes1e18(w, a) ==
  /\ Len(w) >= 1
  /\ \A k \in 1..Len(w) : CharAt(w, k) \in Digits
  /\ StripLeadingZeros(w) = w
  /\ DividedByPow10(w, 18) = CanonDecimal(a)

PositiveDecimal(a) == IsDecimalNumber(a) /\ ~DenotesNonPositive(a)

C16_Shape(c) ==
  /\ params.currency \in DOMAIN CELO_STABLE_TOKENS
  /\ c.to = CELO_STABLE_TOKENS[params.currency]
  /\ c.to # ""
  /\ c.value = "0"
  /\ Len(c.data) = 3
  /\ c.data[1] = "a9059cbb"
  /\ c.data[2] = toLowerCase(params.to)
  /\ IsAmountTimes1e18(c.data[3], params.amount)

\* C16: on the token path, a well-formed recipient R and a positive decimal
\* amount a lead to one call handed to sendUserOperation, and every call
\* handed over there has the contract address of the token as target, value
\* 0 and the call data of transfer(R, a * 10^18).
C16_TokenCallEncoding ==
  (pc # "idle" /\ params.currency # "CELO") =>
    /\ (/\ WellFormedAddress(params.to)
        /\ PositiveDecimal(params.amount)
        /\ ~Unconfigured(params.currency)) => Len(submitted) = 1
    /\ \A c \in SubmittedCalls : C16_Shape(c)

\* the example of the specification: 10.5 tokens
C16_Witness ==
  /\ params = [to |-> ValidTo, amount |-> "10.5", currency |-> "cUSD"]
  /\ submitted = << <<[to |-> CUSD, value |-> "0",
                       data |-> <<"a9059cbb", ValidTo, "10500000000000000000">>]>> >>

C17_Shape(c) ==
  /\ c.to = params.to
  /\ IsAmountTimes1e18(c.value, params.amount)
  /\ c.data = <<>>

\* C17: on the CELO path, a well-formed recipient R and a positive decimal
\* amount a lead to one call handed to sendUserOperation, and every call
\* handed over there has target R, value a * 10^18 and empty call data.
C17_NativeCallEncoding ==
  (pc # "idle" /\ params.currency = "CELO") =>
    /\ (WellFormedAddress(params.to) /\ PositiveDecimal(params.amount))
         => Len(submitted) = 1
    /\ \A c \in SubmittedCalls : C17_Shape(c)

\* the example of the specification: 1.0 CELO
C17_Witness ==
  /\ params = [to |-> ValidTo, amount |-> "1.0", currency |-> "CELO"]
  /\ submitted = << <<[to |-> ValidTo, value |-> "1000000000000000000", data |-> <<>>]>> >>

----------------------------------------------------------------------------
(* C18 *)

\* two outcomes with the same success flag and the same error text
SameVerdict(r, q) ==
  /\ r.success = q.success
  /\ ("error" \in DOMAIN r) = ("error" \in DOMAIN q)
  /\ "error" \in DOMAIN r => r.error = q.error

\* the earlier calls that threw the same value at the same stage as this one
SameErrorBefore == {prev \in previous : thrown # <<>> /\ prev[1] = thrown}

----------------------------------------------------------------------------
(* lib/wallet-utils.ts *)

\* null is the empty set, a wallet or an address w is the set {w}
Null == {}

\* wallets.find(wallet => wallet.walletClientType === type)
findByType(ws, type) ==
  LET hits == {i \in 1..Len(ws) : ws[i].walletClientType = type}
  IN  IF hits = {} THEN Null
      ELSE {ws[CHOOSE i \in hits : \A j \in hits : i <= j]}

\* wallet?.address, when it is truthy
TruthyAddress(found) == {w.address : w \in {v \in found : v.address # ""}}

identifySmartWallet(ws) ==
  LET waapWallet == findByType(ws, "waap")
  IN  IF waapWallet # Null THEN waapWallet ELSE Null

identifyEmbeddedWallet(ws) ==
  LET waapWallet     == findByType(ws, "waap")
      externalWallet == findByType(ws, "external")
  IN  IF waapWallet # Null THEN waapWallet
      ELSE IF externalWallet # Null THEN externalWallet
      ELSE Null

getPrimaryWalletAddress(ws) ==
  LET waapWallet == identifyEmbeddedWallet(ws)
  IN  IF TruthyAddress(waapWallet) # {} THEN TruthyAddress(waapWallet) ELSE Null

getPrimaryWallet(ws) ==
  LET waapWallet == identifyEmbeddedWallet(ws)
  IN  IF waapWallet # Null THEN waapWallet ELSE Null

getEOAAddress_waapFirst(ws) ==
  LET externalWallet == findByType(ws, "external")
      waapWallet     == findByType(ws, "waap")
  IN  IF TruthyAddress(waapWallet) # {} THEN TruthyAddress(waapWallet)
      ELSE IF TruthyAddress(externalWallet) # {} THEN TruthyAddress(externalWallet)
      ELSE Null

getEOAAddress(ws) ==
  LET externalWallet == findByType(ws, "external")
      waapWallet     == findByType(ws, "waap")
  IN  IF TruthyAddress(externalWallet) # {} THEN TruthyAddress(externalWallet)
      ELSE IF TruthyAddress(waapWallet) # {} THEN TruthyAddress(waapWallet)
      ELSE Null

getEOAWallet(ws) ==
  LET externalWallet == findByType(ws, "external")
      waapWallet     == findByType(ws, "waap")
  IN  IF externalWallet # Null THEN externalWallet
      ELSE IF waapWallet # Null THEN waapWallet
      ELSE Null

verifySmartWallet(ws) ==
  LET waapWallet == identifyEmbeddedWallet(ws)
  IN  IF waapWallet # Null
      THEN [exists |-> TRUE, smartWallet |-> waapWallet, embeddedWallet |-> waapWallet,
            message |-> "WaaP wallet found - smart wallet will be created by ZeroDev",
            isCreating |-> FALSE]
      ELSE [exists |-> FALSE, smartWallet |-> Null, embeddedWallet |-> Null,
            message |-> "No WaaP wallet found. Please log in with WaaP.",
            isCreating |-> FALSE]

----------------------------------------------------------------------------
(* The functions of wallet-utils applied to one wallet list *)

WalletAddresses ==
  {"0xd0563bba8e42b6ab0ecdfc1f0ea1486c5c28ba3b",
   "0x6cd82da1c5ee4c6dacf00e7ca084f22db81762d9"}

WaaPWallets ==
  [address : WalletAddresses, walletClientType : {"waap", "external"},
   chainId : {"42220"}, connected : BOOLEAN]

RECURSIVE ListsUpTo(_, _)
\* the lists over the elements xs of length at most n
ListsUpTo(xs, n) ==
  IF n = 0 THEN {<<>>}
  ELSE LET shorter == ListsUpTo(xs, n - 1)
       IN  shorter \cup {Append(l, x) : l \in shorter, x \in xs}

WalletLists == ListsUpTo(WaaPWallets, MaxWallets)

InitWallets ==
  /\ pc = "idle"
  /\ params = NoParams
  /\ registry = CELO_STABLE_TOKENS
  /\ submitted = <<>>
  /\ awaited = <<>>
  /\ userOpHash = {}
  /\ receipt = {}
  /\ thrown = <<>>
  /\ returned = {}
  /\ raised = {}
  /\ previous = {}
  /\ wallets \in WalletLists
  /\ called = <<>>
  /\ NotWaiting
  /\ NotMounted

paymentVars ==
  <<pc, params, registry, submitted, awaited, userOpHash, receipt, thrown,
    returned, raised, previous>>

\* one function of wallet-utils is called with the wallet list
Record(name, result) ==
  /\ name \notin DOMAIN called
  /\ called' = (name :> result) @@ called
  /\ UNCHANGED wallets
  /\ UNCHANGED paymentVars
  /\ UNCHANGED waitVars
  /\ UNCHANGED providerVars

CallIdentifySmartWallet == Record("identifySmartWallet", identifySmartWallet(wallets))
CallIdentifyEmbeddedWallet == Record("identifyEmbeddedWallet", identifyEmbeddedWallet(wallets))
CallGetPrimaryWalletAddress == Record("getPrimaryWalletAddress", getPrimaryWalletAddress(wallets))
CallGetPrimaryWallet == Record("getPrimaryWallet", getPrimaryWallet(wallets))
CallGetEOAAddress == Record("getEOAAddress", getEOAAddress(wallets))
CallGetEOAWallet == Record("getEOAWallet", getEOAWallet(wallets))
CallVerifySmartWallet == Record("verifySmartWallet", verifySmartWallet(wallets))

NextWallets ==
  \/ CallIdentifySmartWallet
  \/ CallIdentifyEmbeddedWallet
  \/ CallGetPrimaryWalletAddress
  \/ CallGetPrimaryWallet
  \/ CallGetEOAAddress
  \/ CallGetEOAWallet
  \/ CallVerifySmartWallet

SpecWallets == InitWallets /\ [][NextWallets]_vars

----------------------------------------------------------------------------
(* C19 *)

\* the first wallet of the list with the given client type, if any
FirstOfType(ws, type) ==
  {ws[i] : i \in {k \in 1..Len(ws) :
                    /\ ws[k].walletClientType = type
                    /\ \A j \in 1..(k - 1) : ws[j].walletClientType # type}}

\* the first external wallet, else the first WaaP wallet, else nothing
ExpectedEOA(ws) ==
  IF FirstOfType(ws, "external") # {} THEN FirstOfType(ws, "external")
  ELSE FirstOfType(ws, "waap")

Returned(name) == called[name]
WasCalled(name) == name \in DOMAIN called

\* C19: getEOAWallet returns the first external wallet of the list, else the
\* first WaaP wallet, else null; getEOAAddress returns the address of that
\* same wallet and null exactly when getEOAWallet returns null.
C19_EOAPriority ==
  /\ WasCalled("getEOAWallet") => Returned("getEOAWallet") = ExpectedEOA(wallets)
  /\ WasCalled("getEOAAddress") =>
       Returned("getEOAAddress") = {w.address : w \in ExpectedEOA(wallets)}
  /\ (WasCalled("getEOAWallet") /\ WasCalled("getEOAAddress")) =>
       /\ (Returned("getEOAAddress") = Null) = (Returned("getEOAWallet") = Null)
       /\ \A w \in Returned("getEOAWallet") : Returned("getEOAAddress") = {w.address}

\* a WaaP wallet ahead of an external one: both functions pick the external one
C19_Witness ==
  /\ Len(wallets) = 2
  /\ wallets[1].walletClientType = "waap"
  /\ wallets[2].walletClientType = "external"
  /\ wallets[1].address # wallets[2].address
  /\ WasCalled("getEOAWallet") /\ WasCalled("getEOAAddress")
  /\ Returned("getEOAWallet") = {wallets[2]}
  /\ Returned("getEOAAddress") = {wallets[2].address}

----------------------------------------------------------------------------
(* C20 *)

\* C20: identifyEmbeddedWallet, and getPrimaryWallet with it, returns the
\* first WaaP wallet of the list if there is one and null otherwise.
C20_EmbeddedIsWaaPOrNull ==
  /\ WasCalled("identifyEmbeddedWallet") =>
       Returned("identifyEmbeddedWallet") = FirstOfType(wallets, "waap")
  /\ WasCalled("getPrimaryWallet") =>
       Returned("getPrimaryWallet") = FirstOfType(wallets, "waap")

----------------------------------------------------------------------------
(* C21 *)

\* C21: verifySmartWallet returns exists = true exactly when the list has a
\* wallet of client type waap, which is exactly when identifySmartWallet
\* returns a wallet, and then smartWallet and embeddedWallet are both that
\* wallet; otherwise exists = false and both are null.
C21_ExistsIffWaaP ==
  WasCalled("verifySmartWallet") =>
    LET v == Returned("verifySmartWallet")
    IN  /\ v.exists = (FirstOfType(wallets, "waap") # {})
        /\ v.exists = (identifySmartWallet(wallets) # Null)
        /\ v.smartWallet = FirstOfType(wallets, "waap")
        /\ v.embeddedWallet = FirstOfType(wallets, "waap")

----------------------------------------------------------------------------
(* waitForSmartWallet (src/unnamed/part_002) *)

\* the numbers maxWaitTime ranges over: finite ones, Infinity and NaN
Finite(n) == [kind |-> "finite", ms |-> n]
Infinity == [kind |-> "Infinity", ms |-> 0]
NaN == [kind |-> "NaN", ms |-> 0]

\* elapsed >= maxWaitTime, for a finite elapsed
Geq(elapsed, m) == m.kind = "finite" /\ elapsed >= m.ms

TimeoutError == NewError("Timeout waiting for WaaP wallet")

\* the clock is not followed beyond the latest time a check can be due
MaxClock == MaxWaitTime + MaxCheckInterval

Earlier(a, b) == IF a <= b THEN a ELSE b

\* whether the number of runs of check so far, this one included, is odd
OddRun == ~(\E k \in lastCheck : k.odd)

Check_unconnected(c) ==
  LET waapWallet == findByType(wallets, "waap")
      elapsed    == now - c.startTime
  IN  /\ lastCheck' = {[elapsed |-> elapsed, waapWallet |-> waapWallet, odd |-> OddRun]}
      /\ IF waapWallet # Null
         THEN /\ settled' = Append(settled, [kind |-> "resolve", value |-> waapWallet])
              /\ timer' = {}
         ELSE IF Geq(elapsed, c.maxWaitTime)
         THEN /\ settled' = Append(settled, [kind |-> "reject", value |-> {TimeoutError}])
              /\ timer' = {}
         ELSE /\ settled' = settled
              /\ timer' = {Earlier(now + c.checkInterval, MaxClock)}

\* one run of check, for the call c
Check(c) ==
  LET waapWallet == findByType(wallets, "waap")
      elapsed    == now - c.startTime
  IN  /\ lastCheck' = {[elapsed |-> elapsed, waapWallet |-> waapWallet, odd |-> OddRun]}
      /\ IF waapWallet # Null /\ \A w \in waapWallet : w.connected
         THEN /\ settled' = Append(settled, [kind |-> "resolve", value |-> waapWallet])
              /\ timer' = {}
         ELSE IF Geq(elapsed, c.maxWaitTime)
         THEN /\ settled' = Append(settled, [kind |-> "reject", value |-> {TimeoutError}])
              /\ timer' = {}
         ELSE /\ settled' = settled
              /\ timer' = {Earlier(now + c.checkInterval, MaxClock)}

\* the wallet lists handed to waitForSmartWallet
WaitWalletLists ==
  ListsUpTo({w \in WaaPWallets : w.address = CHOOSE a \in WalletAddresses : TRUE},
            MaxWallets)

InitWait ==
  /\ pc = "idle"
  /\ params = NoParams
  /\ registry = CELO_STABLE_TOKENS
  /\ submitted = <<>>
  /\ awaited = <<>>
  /\ userOpHash = {}
  /\ receipt = {}
  /\ thrown = <<>>
  /\ returned = {}
  /\ raised = {}
  /\ previous = {}
  /\ wallets \in WaitWalletLists
  /\ called = <<>>
  /\ NotWaiting
  /\ NotMounted

CheckIntervals == 0..MaxCheckInterval
MaxWaitTimes == {Finite(n) : n \in 0..MaxWaitTime} \cup {Infinity, NaN}

\* everything but the wallet list and the state of the wait
notWaitVars ==
  <<pc, params, registry, submitted, awaited, userOpHash, receipt, thrown,
    returned, raised, previous, called, providerVars>>

\* waitForSmartWallet(wallets, checkInterval, maxWaitTime): the executor of
\* the promise takes the start time and runs check once
WaitCall ==
  /\ waiting = {}
  /\ \E ci \in CheckIntervals, mw \in MaxWaitTimes :
       LET c == [startTime |-> now, checkInterval |-> ci, maxWaitTime |-> mw]
       IN  /\ waiting' = {c}
           /\ Check(c)
  /\ UNCHANGED <<now, wallets>>
  /\ UNCHANGED notWaitVars

\* the timer set by setTimeout(check, checkInterval) fires
TimerFires ==
  /\ \E due \in timer : now >= due
  /\ \E c \in waiting : Check(c)
  /\ UNCHANGED <<now, waiting, wallets>>
  /\ UNCHANGED notWaitVars

\* time passes
Tick ==
  /\ waiting # {}
  /\ now < MaxClock
  /\ now' = now + 1
  /\ UNCHANGED <<waiting, timer, lastCheck, settled, wallets>>
  /\ UNCHANGED notWaitVars

\* the owner of the array changes the connected flag of one of its wallets
WalletChanges ==
  /\ waiting # {}
  /\ \E i \in 1..Len(wallets) :
       wallets' = [wallets EXCEPT ![i].connected = ~wallets[i].connected]
  /\ UNCHANGED waitVars
  /\ UNCHANGED notWaitVars

NextWait ==
  \/ WaitCall
  \/ TimerFires
  \/ Tick
  \/ WalletChanges

\* time passes and a timer that is due fires
FairWait == WF_vars(Tick) /\ WF_vars(TimerFires)

SpecWait == InitWait /\ [][NextWait]_vars /\ FairWait

----------------------------------------------------------------------------
(* C22 *)

WaitSettled == Len(settled) = 1

\* one settlement at most; a resolution carries the WaaP wallet the latest
\* check found connected; a rejection is the timeout error of a check that
\* found no connected WaaP wallet with the wait time used up; a check that
\* neither resolves nor finds time left rejects; nothing is scheduled after
\* the settlement
C22_Safety ==
  /\ Len(settled) <= 1
  /\ \A i \in 1..Len(settled) :
       \E k \in lastCheck, c \in waiting :
         \/ /\ settled[i].kind = "resolve"
            /\ settled[i].value = k.waapWallet
            /\ Cardinality(settled[i].value) = 1
            /\ \A w \in settled[i].value :
                 w.walletClientType = "waap" /\ w.connected = TRUE
         \/ /\ settled[i].kind = "reject"
            /\ settled[i].value = {TimeoutError}
            /\ ~(\E w \in k.waapWallet : w.connected)
            /\ c.maxWaitTime.kind = "finite"
            /\ k.elapsed >= c.maxWaitTime.ms
  /\ \A k \in lastCheck, c \in waiting :
       (/\ ~(\E w \in k.waapWallet : w.connected)
        /\ c.maxWaitTime.kind = "finite"
        /\ k.elapsed >= c.maxWaitTime.ms) => WaitSettled
  /\ WaitSettled => timer = {}
  /\ (waiting # {} /\ ~WaitSettled) => timer # {}

\* C22 as stated: the promise settles once and always eventually, resolving
\* only with a connected WaaP wallet and otherwise rejecting with the timeout
\* error at the first check with elapsed >= maxWaitTime; nothing is
\* scheduled after it settles.
C22_SettlesOnceAlways ==
  /\ []C22_Safety
  /\ (waiting # {}) ~> WaitSettled

\* C22 amended: the same for a call whose maxWaitTime is a finite number
C22_SettlesOnceWithinFiniteWait ==
  /\ []C22_Safety
  /\ (\E c \in waiting : c.maxWaitTime.kind = "finite") ~> WaitSettled

\* the wait was rejected by a check that a timer started, after a first
\* check that found the only WaaP wallet not connected
C22_Witness ==
  /\ \E c \in waiting : c.maxWaitTime = Finite(MaxWaitTime) /\ c.checkInterval = 1
  /\ \E k \in lastCheck : k.elapsed >= MaxWaitTime /\ k.waapWallet # Null
  /\ Len(settled) = 1
  /\ settled[1].kind = "reject"
  /\ timer = {}

----------------------------------------------------------------------------
(* WaaPProvider (src/unnamed/part_003).  The setState calls of one          *)
(* synchronous stretch of a handler are applied together; a handler is cut  *)
(* into steps at the awaits that wait for the SDK or the provider.          *)

CELO_CHAIN_ID == 42220

\* what getLoginMethod and login of the provider answer, null apart
LoginMethods == {"waap", "injected", "walletconnect"}

\* the account lists eth_requestAccounts and accountsChanged deliver
Accounts == WalletAddresses
AccountLists ==
  {<<>>} \cup {<<a>> : a \in Accounts} \cup {l \in Accounts \X Accounts : l[1] # l[2]}

Emails == {"ana@motusdao.com"}
DevEmail == "dev@motusdao.com"

\* loginMethod === 'waap' ? 'waap' : 'external'
walletTypeOf(method) == IF method = "waap" THEN "waap" ELSE "external"

\* the one wallet the provider puts into its list
ConnectedWallet(address, walletType) ==
  [address |-> address, walletClientType |-> walletType,
   chainId |-> ToString(CELO_CHAIN_ID), connected |-> TRUE]

\* a WaaPUser: email is a set holding the address, empty for undefined
WaaPUser(id, email, address) == [id |-> id, email |-> email, wallet |-> address]

\* id: waap_ followed by address.slice(2, 10)
UserOf(address, email) == WaaPUser("waap_" \o SubSeq(address, 3, 10), email, address)

\* the ids built from Date.now()
DevUserId == "waap_dev_now"
CodeUserId == "waap_now"

\* what an earlier session may have left in localStorage
StoredUsers == {UserOf(a, {m}) : a \in {CHOOSE x \in Accounts : TRUE}, m \in Emails}

\* the calls of the functions fs end with the given outcome
Ends(fs, outcome) == {<<f, outcome>> : f \in fs}

ClearSession_keepAuthenticated ==
  /\ authenticated' = authenticated
  /\ user' = {}
  /\ wallets' = <<>>

\* setAuthenticated(false); setUser(null); setWallets([])
ClearSession ==
  /\ authenticated' = FALSE
  /\ user' = {}
  /\ wallets' = <<>>

\* setAuthenticated(true); setWallets([wallet]); setUser(u), u empty for no setUser
OpenSession(wallet, u) ==
  /\ authenticated' = TRUE
  /\ wallets' = <<wallet>>
  /\ user' = u

InitProvider ==
  /\ pc = "idle"
  /\ params = NoParams
  /\ registry = CELO_STABLE_TOKENS
  /\ submitted = <<>>
  /\ awaited = <<>>
  /\ userOpHash = {}
  /\ receipt = {}
  /\ thrown = <<>>
  /\ returned = {}
  /\ raised = {}
  /\ previous = {}
  /\ wallets = <<>>
  /\ called = <<>>
  /\ NotWaiting
  /\ ready = FALSE
  /\ authenticated = FALSE
  /\ user = {}
  /\ waapProvider = {}
  /\ isWaaPReady = FALSE
  /\ pendingEmail = {}
  /\ storage \in {{}} \cup {{u} : u \in StoredUsers}
  /\ nodeEnv \in {"production", "development"}
  /\ initPc = "importing"
  /\ initMethod = {}
  /\ loginPc = "idle"
  /\ loginLocal = NoLogin
  /\ logoutPc = "idle"
  /\ ended = {}

\* everything but the state of the provider
notProviderVars ==
  <<pc, params, registry, submitted, awaited, userOpHash, receipt, thrown,
    returned, raised, previous, called, waitVars>>

ImportReturns_hangsOnError ==
  /\ initPc = "importing"
  /\ \E sdk \in {"missing", "initWaaP throws", "ok"} :
       \/ /\ sdk = "missing"
          /\ ready' = TRUE
          /\ isWaaPReady' = FALSE
          /\ initPc' = "done"
       \/ /\ sdk = "initWaaP throws"
          /\ initPc' = "done"
          /\ UNCHANGED <<ready, isWaaPReady>>
       \/ /\ sdk = "ok"
          /\ initPc' = "pause"
          /\ UNCHANGED <<ready, isWaaPReady>>
  /\ ended' = {}
  /\ UNCHANGED <<authenticated, user, wallets, waapProvider, pendingEmail, storage,
                 nodeEnv, initMethod, loginPc, loginLocal, logoutPc>>
  /\ UNCHANGED notProviderVars

\* initializeWaaP: the import of the SDK settles, initWaaP is called
ImportReturns ==
  /\ initPc = "importing"
  /\ \E sdk \in {"missing", "initWaaP throws", "ok"} :
       \/ /\ sdk = "missing"
          /\ ready' = TRUE
          /\ isWaaPReady' = FALSE
          /\ initPc' = "done"
       \/ /\ sdk = "initWaaP throws"
          /\ ready' = TRUE
          /\ initPc' = "done"
          /\ UNCHANGED isWaaPReady
       \/ /\ sdk = "ok"
          /\ initPc' = "pause"
          /\ UNCHANGED <<ready, isWaaPReady>>
  /\ ended' = {}
  /\ UNCHANGED <<authenticated, user, wallets, waapProvider, pendingEmail, storage,
                 nodeEnv, initMethod, loginPc, loginLocal, logoutPc>>
  /\ UNCHANGED notProviderVars

\* the 100 ms pause ends: window.waap is looked up and checkExistingSession
\* runs up to its first await
PauseEnds ==
  /\ initPc = "pause"
  /\ \E hasWaap \in BOOLEAN, method \in LoginMethods \cup {"null", "throws"} :
       IF ~hasWaap
       THEN /\ ready' = TRUE
            /\ initPc' = "done"
            /\ UNCHANGED <<waapProvider, isWaaPReady, initMethod>>
       ELSE /\ waapProvider' = {"window.waap"}
            /\ isWaaPReady' = TRUE
            /\ IF method \in LoginMethods
               THEN /\ initPc' = "autoAccounts"
                    /\ initMethod' = {method}
                    /\ UNCHANGED ready
               ELSE /\ ready' = TRUE
                    /\ initPc' = "done"
                    /\ UNCHANGED initMethod
  /\ ended' = {}
  /\ UNCHANGED <<authenticated, user, wallets, pendingEmail, storage, nodeEnv, loginPc,
                 loginLocal, logoutPc>>
  /\ UNCHANGED notProviderVars

\* checkExistingSession: eth_requestAccounts settles
AutoAccountsReturns ==
  /\ initPc = "autoAccounts"
  /\ \E outcome \in {"returns", "throws"}, answer \in AccountLists :
       IF outcome = "throws" \/ answer = <<>>
       THEN /\ ready' = TRUE
            /\ initPc' = "done"
            /\ UNCHANGED <<authenticated, user, wallets>>
       ELSE /\ \E method \in initMethod :
                 OpenSession(ConnectedWallet(answer[1], walletTypeOf(method)),
                             IF storage # {} THEN storage
                             ELSE {UserOf(answer[1], {})})
            /\ initPc' = "autoSwitch"
            /\ UNCHANGED ready
  /\ initMethod' = {}
  /\ ended' = {}
  /\ UNCHANGED <<waapProvider, isWaaPReady, pendingEmail, storage, nodeEnv, loginPc,
                 loginLocal, logoutPc>>
  /\ UNCHANGED notProviderVars

\* checkExistingSession: wallet_switchEthereumChain settles either way,
\* initializeWaaP goes on to setReady(true)
AutoSwitchReturns ==
  /\ initPc = "autoSwitch"
  /\ ready' = TRUE
  /\ initPc' = "done"
  /\ ended' = {}
  /\ UNCHANGED <<authenticated, user, wallets, waapProvider, isWaaPReady, pendingEmail,
                 storage, nodeEnv, initMethod, loginPc, loginLocal, logoutPc>>
  /\ UNCHANGED notProviderVars

\* the call of login in flight, and that of loginWithCode if it awaits it
LoginCallers == IF loginLocal.viaCode THEN {"login", "loginWithCode"} ELSE {"login"}

\* login ends; loginWithCode, if it awaited login, goes on to
\* setPendingEmail(null)
LoginEnds ==
  /\ loginPc' = "idle"
  /\ loginLocal' = NoLogin
  /\ pendingEmail' = IF loginLocal.viaCode THEN {} ELSE pendingEmail
  /\ ended' = Ends(LoginCallers, "returned")

\* login raises, and loginWithCode with it if it awaited login
LoginRaises ==
  /\ loginPc' = "idle"
  /\ loginLocal' = NoLogin
  /\ ended' = Ends(LoginCallers, "raised")
  /\ UNCHANGED pendingEmail

\* login(): up to the await of waap.login()
LoginCall ==
  /\ initPc # "unmounted"
  /\ loginPc = "idle"
  /\ IF ~isWaaPReady \/ waapProvider = {}
     THEN IF nodeEnv = "development"
          THEN /\ \E mockAddress \in Accounts :
                    OpenSession(ConnectedWallet(mockAddress, "waap"),
                                {WaaPUser(DevUserId, {DevEmail}, mockAddress)})
               /\ ended' = Ends({"login"}, "returned")
               /\ UNCHANGED <<loginPc, loginLocal>>
          ELSE /\ ended' = Ends({"login"}, "raised")
               /\ UNCHANGED <<authenticated, user, wallets, loginPc, loginLocal>>
     ELSE /\ loginPc' = "modal"
          /\ loginLocal' = NoLogin
          /\ ended' = {}
          /\ UNCHANGED <<authenticated, user, wallets>>
  /\ UNCHANGED <<ready, waapProvider, isWaaPReady, pendingEmail, storage, nodeEnv,
                 initPc, initMethod, logoutPc>>
  /\ UNCHANGED notProviderVars

Codes == {"123456", "000000"}

\* loginWithCode({ code }): up to the await of login(), and of waap.login()
\* inside it
LoginWithCodeCall ==
  /\ initPc # "unmounted"
  /\ loginPc = "idle"
  /\ \E code \in Codes :
       IF ~isWaaPReady
       THEN IF nodeEnv = "development" /\ code = "123456"
            THEN /\ \E mockAddress \in Accounts :
                      OpenSession(ConnectedWallet(mockAddress, "waap"),
                                  {WaaPUser(CodeUserId, pendingEmail, mockAddress)})
                 /\ pendingEmail' = {}
                 /\ ended' = Ends({"loginWithCode"}, "returned")
                 /\ UNCHANGED <<loginPc, loginLocal>>
            ELSE /\ ended' = Ends({"loginWithCode"}, "raised")
                 /\ UNCHANGED <<authenticated, user, wallets, pendingEmail, loginPc,
                                loginLocal>>
       ELSE IF waapProvider = {}
            THEN /\ ended' = Ends({"login", "loginWithCode"}, "raised")
                 /\ UNCHANGED <<authenticated, user, wallets, pendingEmail, loginPc,
                                loginLocal>>
            ELSE /\ loginPc' = "modal"
                 /\ loginLocal' = [NoLogin EXCEPT !.viaCode = TRUE]
                 /\ ended' = {}
                 /\ UNCHANGED <<authenticated, user, wallets, pendingEmail>>
  /\ UNCHANGED <<ready, waapProvider, isWaaPReady, storage, nodeEnv,
                 initPc, initMethod, logoutPc>>
  /\ UNCHANGED notProviderVars

\* login: waap.login() settles
LoginModalReturns ==
  /\ loginPc = "modal"
  /\ \E loginType \in LoginMethods \cup {"null", "throws"} :
       \/ /\ loginType = "throws"
          /\ LoginRaises
       \/ /\ loginType = "null"
          /\ LoginEnds
       \/ /\ loginType \in LoginMethods
          /\ loginPc' = "accounts"
          /\ loginLocal' = [loginLocal EXCEPT !.loginType = loginType]
          /\ ended' = {}
          /\ UNCHANGED pendingEmail
  /\ UNCHANGED <<ready, authenticated, user, wallets, waapProvider, isWaaPReady,
                 storage, nodeEnv, initPc, initMethod, logoutPc>>
  /\ UNCHANGED notProviderVars

\* setUser(waapUser); localStorage.setItem('waap_user', ...), then the await of
\* wallet_switchEthereumChain
UserSet(waapUser) ==
  /\ user' = {waapUser}
  /\ storage' = {waapUser}
  /\ loginPc' = "switch"

\* login: eth_requestAccounts settles
LoginAccountsReturns ==
  /\ loginPc = "accounts"
  /\ \E outcome \in {"returns", "throws"}, answer \in AccountLists :
       \/ /\ outcome = "throws"
          /\ LoginRaises
          /\ UNCHANGED <<authenticated, user, wallets, storage>>
       \/ /\ outcome = "returns" /\ answer = <<>>
          /\ LoginEnds
          /\ UNCHANGED <<authenticated, user, wallets, storage>>
       \/ /\ outcome = "returns" /\ answer # <<>>
          /\ authenticated' = TRUE
          /\ wallets' = <<ConnectedWallet(answer[1], walletTypeOf(loginLocal.loginType))>>
          /\ loginLocal' = [loginLocal EXCEPT !.address = answer[1]]
          /\ IF loginLocal.loginType = "waap"
             THEN /\ loginPc' = "email"
                  /\ UNCHANGED <<user, storage>>
             ELSE UserSet(UserOf(answer[1], {}))
          /\ ended' = {}
          /\ UNCHANGED pendingEmail
  /\ UNCHANGED <<ready, waapProvider, isWaaPReady, nodeEnv, initPc, initMethod, logoutPc>>
  /\ UNCHANGED notProviderVars

\* login: requestEmail settles; an empty email and a refusal leave email
\* undefined
LoginEmailReturns ==
  /\ loginPc = "email"
  /\ \E answer \in Emails \cup {"", "throws"} :
       UserSet(UserOf(loginLocal.address,
                      IF answer \in {"", "throws"} THEN {} ELSE {answer}))
  /\ ended' = {}
  /\ UNCHANGED <<ready, authenticated, wallets, waapProvider, isWaaPReady,
                 pendingEmail, nodeEnv, initPc, initMethod, loginLocal, logoutPc>>
  /\ UNCHANGED notProviderVars

\* login: wallet_switchEthereumChain settles either way
LoginSwitchReturns ==
  /\ loginPc = "switch"
  /\ LoginEnds
  /\ UNCHANGED <<ready, authenticated, user, wallets, waapProvider, isWaaPReady,
                 storage, nodeEnv, initPc, initMethod, logoutPc>>
  /\ UNCHANGED notProviderVars

LogoutEnds_keepStored(caught) ==
  /\ ClearSession
  /\ storage' = storage
  /\ logoutPc' = "idle"
  /\ ended' = Ends({"logout"}, "returned") \cup Ends(caught, "raised")

\* the end of logout, after its catch took what the functions in caught
\* threw: the local state is cleared and waap_user removed
LogoutEnds(caught) ==
  /\ ClearSession
  /\ storage' = {}
  /\ logoutPc' = "idle"
  /\ ended' = Ends({"logout"}, "returned") \cup Ends(caught, "raised")

\* logout(): up to the await of waap.logout(), or to its end without provider
\* or with a getLoginMethod that throws
LogoutCall ==
  /\ initPc # "unmounted"
  /\ logoutPc = "idle"
  /\ IF waapProvider # {}
     THEN \E getLoginMethod \in {"returns", "throws"} :
            IF getLoginMethod = "throws"
            THEN LogoutEnds({"waap.getLoginMethod"})
            ELSE /\ logoutPc' = "awaiting"
                 /\ ended' = {}
                 /\ UNCHANGED <<authenticated, user, wallets, storage>>
     ELSE LogoutEnds({})
  /\ UNCHANGED <<ready, waapProvider, isWaaPReady, pendingEmail, nodeEnv, initPc,
                 initMethod, loginPc, loginLocal>>
  /\ UNCHANGED notProviderVars

\* logout: waap.logout() settles
LogoutReturns ==
  /\ logoutPc = "awaiting"
  /\ \E outcome \in {"returns", "throws"} :
       LogoutEnds(IF outcome = "throws" THEN {"waap.logout"} ELSE {})
  /\ UNCHANGED <<ready, waapProvider, isWaaPReady, pendingEmail, nodeEnv, initPc,
                 initMethod, loginPc, loginLocal>>
  /\ UNCHANGED notProviderVars

\* sendCode({ email })
SendCode ==
  /\ initPc # "unmounted"
  /\ \E email \in Emails : pendingEmail' = {email}
  /\ ended' = Ends({"sendCode"}, "returned")
  /\ UNCHANGED <<ready, authenticated, user, wallets, waapProvider, isWaaPReady,
                 storage, nodeEnv, initPc, initMethod, loginPc, loginLocal, logoutPc>>
  /\ UNCHANGED notProviderVars

\* handleAccountsChanged: the provider emits accountsChanged
AccountsChanged ==
  /\ waapProvider # {}
  /\ \E accountsArray \in AccountLists, loginMethod \in LoginMethods \cup {"null"} :
       IF Len(accountsArray) = 0
       THEN ClearSession
       ELSE /\ wallets' = <<ConnectedWallet(accountsArray[1], walletTypeOf(loginMethod))>>
            /\ user' = {[prev EXCEPT !.wallet = accountsArray[1]] : prev \in user}
            /\ UNCHANGED authenticated
  /\ ended' = {}
  /\ UNCHANGED <<ready, waapProvider, isWaaPReady, pendingEmail, storage, nodeEnv,
                 initPc, initMethod, loginPc, loginLocal, logoutPc>>
  /\ UNCHANGED notProviderVars

\* handleDisconnect: the provider emits disconnect
Disconnect ==
  /\ waapProvider # {}
  /\ ClearSession
  /\ ended' = {}
  /\ UNCHANGED <<ready, waapProvider, isWaaPReady, pendingEmail, storage, nodeEnv,
                 initPc, initMethod, loginPc, loginLocal, logoutPc>>
  /\ UNCHANGED notProviderVars

NextProvider ==
  \/ ImportReturns
  \/ PauseEnds
  \/ AutoAccountsReturns
  \/ AutoSwitchReturns
  \/ LoginCall
  \/ LoginWithCodeCall
  \/ LoginModalReturns
  \/ LoginAccountsReturns
  \/ LoginEmailReturns
  \/ LoginSwitchReturns
  \/ LogoutCall
  \/ LogoutReturns
  \/ SendCode
  \/ AccountsChanged
  \/ Disconnect

\* the import, the pause and the provider requests of the initialization
\* eventually return
FairProvider ==
  /\ WF_vars(ImportReturns)
  /\ WF_vars(PauseEnds)
  /\ WF_vars(AutoAccountsReturns)
  /\ WF_vars(AutoSwitchReturns)

SpecProvider == InitProvider /\ [][NextProvider]_vars /\ FairProvider

----------------------------------------------------------------------------
(* C23 *)

SessionCleared ==
  /\ authenticated = FALSE
  /\ user = {}
  /\ wallets = <<>>
  /\ storage = {}

\* C23: when a call of logout ends, authenticated is false, user is null, the
\* wallets list is empty and waap_user is removed, also when waap.logout or
\* getLoginMethod failed or there is no provider; logout does not raise.
C23_LogoutClearsSession ==
  /\ <<"logout", "returned">> \in ended => SessionCleared
  /\ <<"logout", "raised">> \notin ended

\* a logout ended although waap.logout failed
C23_Witness ==
  /\ waapProvider # {}
  /\ ended = {<<"logout", "returned">>, <<"waap.logout", "raised">>}
  /\ SessionCleared

----------------------------------------------------------------------------
(* C24 *)

\* C24: after the mount ready becomes true on every path of the
\* initialization, given that the import, the pause and the provider requests
\* return; ready never goes back to false; isWaaPReady implies a provider.
C24_ReadyEventuallyAndForGood ==
  /\ <>ready
  /\ [][ready => ready']_vars
  /\ [](isWaaPReady => waapProvider # {})

\* ready after an auto-connect that failed or found no account
C24_Witness ==
  /\ ready
  /\ initPc = "done"
  /\ isWaaPReady
  /\ waapProvider # {}
  /\ ~authenticated
  /\ ended = {}
  /\ loginPc = "idle" /\ logoutPc = "idle"

----------------------------------------------------------------------------
(* C25 *)

\* C25: the wallets list has one entry at most, and authenticated implies
\* that it has one entry, with connected = true and chainId 42220.
C25_OneConnectedWallet ==
  /\ Len(wallets) <= 1
  /\ authenticated =>
       /\ Len(wallets) = 1
       /\ wallets[1].connected = TRUE
       /\ wallets[1].chainId = "42220"

\* authenticated with the account switched to another one by accountsChanged
C25_Witness ==
  /\ authenticated
  /\ Len(wallets) = 1
  /\ \E u \in user : u.wallet = wallets[1].address
                     /\ u.id # "waap_" \o SubSeq(wallets[1].address, 3, 10)
                     /\ u.id \notin {DevUserId, CodeUserId}

----------------------------------------------------------------------------
(* C26 *)

\* C26: a non-empty wallets list implies authenticated = true: after logout,
\* after disconnect and before any login the list stays empty whatever
\* events of the provider arrive.
C26_WalletsOnlyWhileAuthenticated == wallets # <<>> => authenticated

----------------------------------------------------------------------------
(* C27 *)

\* C27: user is non-null only while authenticated = true, also when logout or
\* disconnect happen while a call of login awaits the provider.
C27_UserOnlyWhileAuthenticated == user # {} => authenticated

====
